---- MODULE Spec2Model ----
(***************************************************************************)
(* State-machine model of the TrustAgent desktop front end (App.tsx): the  *)
(* session controller of the App component, its asynchronous backend calls *)
(* and the agent_event push channel.  Every asynchronous handler is a task *)
(* whose steps are the synchronous code segments between two awaits; one   *)
(* backend call goes through three phases: issued ("sent"), processed by   *)
(* the backend ("ok"/"err"), resumed by the handler.  The tools menu       *)
(* (McpToolsMenu) with its server queries and its status-change            *)
(* subscription is modelled the same way and has its own specification.    *)
(***************************************************************************)
EXTENDS Integers, Sequences, FiniteSets, Bags, TLC

\* ---------------------------------------------------------------- bounds
MaxTasks == 2
MaxOps == 2
MaxSessions == 2
MaxEvents == 2
MaxChanges == 1
MaxClicks == 3

\* ------------------------------------------------------------- constants
Null == 0
NoSess == [id |-> Null, title |-> "", messages |-> <<>>]
NewChatTitle == "New Chat"
Titles == {"Trip", "Work"}
Tools == {"A"}
Inputs == {<<>>, <<" ">>, <<" ", "h", " ">>}
Replies == {<<"o", "k">>}
Errors == {<<"n", "e">>}
ErrPrefix == <<"E", ":", " ">>
Statuses == {"null", "thinking"}

VARIABLES messages, inputValue, isLoading, sessions, currentSessionId,
          agentStatus, activeTools, tasks, bSessions, bCurrent, bNext, evq, eg, ops, last,
          servers, discoveredTools, selectedServerName, isOpen,
          mcalls, listeners, mevq, bServers, mg, mlast,
          content, format, renders

\* McpToolsMenu: its state, its calls in flight, its subscriptions, the servers
menuVars == <<servers, discoveredTools, selectedServerName, isOpen,
              mcalls, listeners, mevq, bServers, mg, mlast>>

vars == <<messages, inputValue, isLoading, sessions, currentSessionId,
          agentStatus, activeTools, tasks, bSessions, bCurrent, bNext, evq, eg, ops, last,
          menuVars, content, format, renders>>

\* SmartContentRenderer: the content it is given, the format it has detected and
\* the number of times it was rendered
renderVars == <<content, format, renders>>

\* the App state the tools menu never touches
appVars == <<messages, inputValue, isLoading, sessions, currentSessionId,
             agentStatus, tasks, bSessions, bCurrent, bNext, evq, eg>>

uiVars == <<messages, inputValue, isLoading, sessions, currentSessionId,
            agentStatus, activeTools>>

\* the agent_event channel: the events in flight, and what was emitted and delivered
evVars == <<evq, eg>>

\* ------------------------------------------------------- pure operators
RECURSIVE TrimStart(_)
TrimStart(s) == IF s = <<>> THEN <<>>
                ELSE IF Head(s) = " " THEN TrimStart(Tail(s)) ELSE s

RECURSIVE TrimEnd(_)
TrimEnd(s) == IF s = <<>> THEN <<>>
              ELSE IF s[Len(s)] = " " THEN TrimEnd(SubSeq(s, 1, Len(s) - 1)) ELSE s

\* String.prototype.trim on a sequence of characters
Trim(s) == TrimEnd(TrimStart(s))

Contains(s, e) == \E i \in 1..(Len(s) - Len(e) + 1) : SubSeq(s, i, i + Len(e) - 1) = e

UserMsg(text) == [role |-> "user", content |-> text]
AssistantMsg(text) == [role |-> "assistant", content |-> text]
\* `❌ Error: ${error}`
ErrorMsg(e) == [role |-> "assistant", content |-> ErrPrefix \o e]

Ids(list) == {list[i].id : i \in 1..Len(list)}
IndexOf(list, id) == CHOOSE i \in 1..Len(list) : list[i].id = id
Find(list, id) == list[IndexOf(list, id)]

RECURSIVE Without(_, _)
Without(list, id) == IF list = <<>> THEN <<>>
                     ELSE IF Head(list).id = id THEN Without(Tail(list), id)
                     ELSE <<Head(list)>> \o Without(Tail(list), id)

\* prev.map((s) => (s.id === id ? { ...s, title: newTitle } : s))
PatchTitle(list, id, newTitle) ==
    [i \in 1..Len(list) |-> IF list[i].id = id
                            THEN [list[i] EXCEPT !.title = newTitle]
                            ELSE list[i]]

\* ---------------------------------------------------------------- tasks
Idle == [n |-> 0, kind |-> "none", pc |-> "", st |-> "", id |-> Null, title |-> "",
         cur |-> Null, resp |-> <<>>, sess |-> NoSess, fromInit |-> FALSE,
         sid |-> Null, m0 |-> <<>>, txt |-> <<>>, tools |-> <<>>, got |-> <<>>,
         curKind |-> "", calls |-> <<>>, alerts |-> 0, torn |-> FALSE, typed |-> <<>>]

NoLast == [act |-> "none", task |-> Idle, prevCur |-> Null, prevMsgs |-> <<>>,
           prevSessions |-> <<>>, prevStatus |-> "null", prevTools |-> <<>>,
           tool |-> "", arg |-> <<>>, prevAct |-> ""]

Issue(task, pc, call) ==
    [task EXCEPT !.pc = pc, !.st = "sent", !.resp = <<>>,
                 !.calls = Append(@, <<"issue", call, task.id>>)]

Done(task) == [act |-> "done", task |-> task, prevCur |-> currentSessionId,
               prevMsgs |-> messages, prevSessions |-> sessions,
               prevStatus |-> agentStatus, prevTools |-> activeTools, tool |-> "",
               arg |-> <<>>, prevAct |-> ""]

\* ------------------------------------------------- the tool servers
Servers == <<"s1", "s2">>
\* the tools each server offers while it runs
McpTools == [s1 |-> <<"A", "B">>, s2 |-> <<"C">>]
AllTools == {"A", "B", "C"}
ServerNames == {Servers[i] : i \in 1..Len(Servers)}

NoTools == [has |-> FALSE, tools |-> <<>>]
NoCall == [n |-> 0, kind |-> "none", server |-> "", st |-> "", resp |-> <<>>, gen |-> 0]
NoMenuLast == [act |-> "none", gen |-> 0]
NoListener == [st |-> "none", torn |-> FALSE]
\* no agent event emitted yet, none delivered since the last send started
NoEvents == [emitted |-> "none", arrived |-> FALSE]

\* no message content has been rendered
NotRendered == content = <<>> /\ format = "none" /\ renders = 0

\* the tools menu before it is mounted
MenuIdle ==
    /\ servers = <<>>
    /\ discoveredTools = [s \in ServerNames |-> NoTools]
    /\ selectedServerName = ""
    /\ isOpen = FALSE
    /\ mcalls = EmptyBag
    /\ listeners = [g \in 1..2 |-> NoListener]
    /\ mevq = <<>>
    /\ bServers = [s \in ServerNames |-> "stopped"]
    /\ mg = [changes |-> 0, clicks |-> 0, overlap |-> FALSE]
    /\ mlast = NoMenuLast

\* ------------------------------------------------------------ the backend
InitBackends ==
    { <<>>,
      <<[id |-> 1, title |-> "Old", messages |-> <<UserMsg(<<"q">>), AssistantMsg(<<"a">>)>>],
        [id |-> 2, title |-> NewChatTitle, messages |-> <<>>]>> }

Init ==
    /\ messages = <<>>
    /\ inputValue = <<>>
    /\ isLoading = FALSE
    /\ sessions = <<>>
    /\ currentSessionId = Null
    /\ agentStatus = "null"
    /\ activeTools = <<>>
    /\ bSessions \in InitBackends
    /\ bCurrent = Null
    /\ bNext = Len(bSessions) + 1
    /\ evq = <<>> /\ eg = NoEvents /\ NotRendered
    /\ ops = 0
    /\ last = NoLast
    \* the mount effect has called initializeApp(), which awaits get_all_sessions
    /\ tasks = {Issue([Idle EXCEPT !.kind = "init", !.fromInit = TRUE],
                       "get", "get_all_sessions")}
    /\ MenuIdle

backendVars == <<bSessions, bCurrent, bNext>>

\* name of the backend command a task is waiting for
CallOf(task) ==
    CASE task.pc = "get" -> "get_all_sessions"
      [] task.pc = "load" -> "get_all_sessions"
      [] task.pc = "fin" -> "finalize_and_new_chat"
      [] task.pc = "sel" -> "select_session"
      [] task.pc = "ren" -> "rename_session"
      [] task.pc = "del" -> "delete_session"
      [] task.pc = "run" -> "run_agent_task"
      [] OTHER -> "none"

Settle(t, st, resp, sess) ==
    tasks' = (tasks \ {t}) \cup {[t EXCEPT !.st = st, !.resp = resp, !.sess = sess,
                                               !.calls = Append(@, <<st, CallOf(t), t.id>>)]}

\* any command may fail; a failed command changes nothing in the backend
BackendFails(t) ==
    /\ \E e \in Errors : Settle(t, "err", e, t.sess)
    /\ UNCHANGED backendVars

GetAllSessions(t) ==
    /\ Settle(t, "ok", bSessions, t.sess)
    /\ UNCHANGED backendVars

SelectSession(t) ==
    /\ t.id \in Ids(bSessions)
    /\ Settle(t, "ok", <<>>, Find(bSessions, t.id))
    /\ bCurrent' = t.id
    /\ UNCHANGED <<bSessions, bNext>>

FinalizeAndNewChat(t) ==
    \/ /\ bNext <= MaxSessions
       /\ LET new == [id |-> bNext, title |-> NewChatTitle, messages |-> <<>>]
          IN /\ Settle(t, "ok", <<>>, new)
             /\ bSessions' = <<new>> \o bSessions
             /\ bCurrent' = new.id
             /\ bNext' = bNext + 1
    \/ \* the backend keeps an empty, untitled current session instead of adding one
       /\ bCurrent \in Ids(bSessions)
       /\ Find(bSessions, bCurrent).messages = <<>>
       /\ Find(bSessions, bCurrent).title = NewChatTitle
       /\ Settle(t, "ok", <<>>, Find(bSessions, bCurrent))
       /\ UNCHANGED backendVars

RenameSession(t) ==
    /\ t.id \in Ids(bSessions)
    /\ Settle(t, "ok", <<>>, t.sess)
    /\ bSessions' = PatchTitle(bSessions, t.id, t.title)
    /\ UNCHANGED <<bCurrent, bNext>>

DeleteSession(t) ==
    /\ t.id \in Ids(bSessions)
    /\ Settle(t, "ok", <<>>, t.sess)
    /\ bSessions' = Without(bSessions, t.id)
    /\ bCurrent' = IF bCurrent = t.id THEN Null ELSE bCurrent
    /\ UNCHANGED bNext

RunAgentTask(t) ==
    /\ bCurrent \in Ids(bSessions)
    /\ \E r \in Replies :
         /\ Settle(t, "ok", r, t.sess)
         /\ bSessions' = [bSessions EXCEPT ![IndexOf(bSessions, bCurrent)].messages =
                             @ \o <<UserMsg(t.txt), AssistantMsg(r)>>]
    /\ UNCHANGED <<bCurrent, bNext>>

\* the backend processes one command that is in flight
Backend(t) ==
    /\ t.st = "sent"
    /\ \/ BackendFails(t)
       \/ CallOf(t) = "get_all_sessions" /\ GetAllSessions(t)
       \/ CallOf(t) = "select_session" /\ SelectSession(t)
       \/ CallOf(t) = "finalize_and_new_chat" /\ FinalizeAndNewChat(t)
       \/ CallOf(t) = "rename_session" /\ RenameSession(t)
       \/ CallOf(t) = "delete_session" /\ DeleteSession(t)
       \/ CallOf(t) = "run_agent_task" /\ RunAgentTask(t)
    /\ last' = NoLast
    /\ UNCHANGED <<uiVars, evVars, ops, menuVars, renderVars>>

\* ------------------------------------------------- App.tsx: the handlers
Settled(t) == t.st \in {"ok", "err"}

Step(task) == [act |-> "step", task |-> task, prevCur |-> currentSessionId,
               prevMsgs |-> messages, prevSessions |-> sessions,
               prevStatus |-> agentStatus, prevTools |-> activeTools, tool |-> "",
               arg |-> <<>>, prevAct |-> ""]

Finish(t) == /\ tasks' = tasks \ {t}
             /\ last' = Done(t)

\* the handler's catch block: console.error, alert(...), and the handler returns
Alert(t) == /\ tasks' = tasks \ {t}
            /\ last' = Done([t EXCEPT !.alerts = @ + 1])

Continue(t, pc, call) ==
    /\ tasks' = (tasks \ {t}) \cup {Issue(t, pc, call)}
    /\ last' = Step(t)

\* loadSessions: setSessions(list) on success, setSessions([]) on error
LoadedSessions(task) == IF task.st = "ok" THEN task.resp ELSE <<>>

\* variant: the returned session is not adopted as current
HandleNewChatResume_NoAdopt(t) ==
    /\ t.kind = "newchat" /\ t.pc = "fin" /\ Settled(t)
    /\ IF t.st = "ok"
       THEN /\ messages' = t.sess.messages
            /\ sessions' = <<t.sess>> \o sessions
       ELSE UNCHANGED <<messages, sessions>>
    /\ UNCHANGED currentSessionId
    /\ IF t.st = "ok" THEN Finish(t) ELSE Alert(t)
    /\ UNCHANGED <<inputValue, isLoading, agentStatus, activeTools, backendVars, evVars, ops, menuVars, renderVars>>

\* variant: the returned session is added at the end of the list
HandleNewChatResume_Append(t) ==
    /\ t.kind = "newchat" /\ t.pc = "fin" /\ Settled(t)
    /\ IF t.st = "ok"
       THEN /\ currentSessionId' = t.sess.id
            /\ messages' = t.sess.messages
            /\ sessions' = Append(sessions, t.sess)
       ELSE UNCHANGED <<currentSessionId, messages, sessions>>
    /\ IF t.st = "ok" THEN Finish(t) ELSE Alert(t)
    /\ UNCHANGED <<inputValue, isLoading, agentStatus, activeTools, backendVars, evVars, ops, menuVars, renderVars>>

\* handleNewChat after finalize_and_new_chat has settled
HandleNewChatResume(t) ==
    /\ t.kind = "newchat" /\ t.pc = "fin" /\ Settled(t)
    /\ IF t.st = "ok"
       THEN /\ currentSessionId' = t.sess.id
            /\ messages' = t.sess.messages
            /\ sessions' = <<t.sess>> \o sessions
       ELSE UNCHANGED <<currentSessionId, messages, sessions>>
    /\ IF t.st = "ok" THEN Finish(t) ELSE Alert(t)
    /\ UNCHANGED <<inputValue, isLoading, agentStatus, activeTools, backendVars, evVars, ops, menuVars, renderVars>>

\* variant: the transcript switches before the list reload
HandleSelectSessionSelected_Early(t) ==
    /\ t.kind = "select" /\ t.pc = "sel" /\ Settled(t)
    /\ IF t.st = "ok"
       THEN /\ Continue(t, "load", "get_all_sessions")
            /\ currentSessionId' = t.sess.id
            /\ messages' = t.sess.messages
       ELSE /\ Alert(t)
            /\ UNCHANGED <<currentSessionId, messages>>
    /\ UNCHANGED <<inputValue, isLoading, sessions, agentStatus, activeTools,
                   backendVars, evVars, ops, menuVars, renderVars>>

\* variant: the catch block alerts and rethrows, so startup's catch alerts again
HandleSelectSessionSelected_Rethrow(t) ==
    /\ t.kind = "select" /\ t.pc = "sel" /\ Settled(t)
    /\ IF t.st = "ok"
       THEN Continue(t, "load", "get_all_sessions")
       ELSE /\ tasks' = tasks \ {t}
            /\ last' = Done([t EXCEPT !.alerts = @ + (IF t.fromInit THEN 2 ELSE 1)])
    /\ UNCHANGED <<uiVars, backendVars, evVars, ops, menuVars, renderVars>>

\* handleSelectSession after select_session has settled
HandleSelectSessionSelected(t) ==
    /\ t.kind = "select" /\ t.pc = "sel" /\ Settled(t)
    /\ IF t.st = "ok"
       THEN Continue(t, "load", "get_all_sessions")
       ELSE Alert(t)
    /\ UNCHANGED <<uiVars, backendVars, evVars, ops, menuVars, renderVars>>

\* handleSelectSession after the loadSessions it awaits has finished
HandleSelectSessionLoaded(t) ==
    /\ t.kind = "select" /\ t.pc = "load" /\ Settled(t)
    /\ sessions' = LoadedSessions(t)
    /\ currentSessionId' = t.sess.id
    /\ messages' = t.sess.messages
    /\ Finish(t)
    /\ UNCHANGED <<inputValue, isLoading, agentStatus, activeTools, backendVars, evVars, ops, menuVars, renderVars>>

\* variant: startup selects the last listed session
InitializeAppLoaded_Last(t) ==
    /\ t.kind = "init" /\ t.pc = "get" /\ Settled(t)
    /\ IF t.st = "ok"
       THEN /\ sessions' = t.resp
            /\ IF Len(t.resp) > 0
               THEN tasks' = (tasks \ {t}) \cup
                        {Issue([t EXCEPT !.kind = "select", !.id = t.resp[Len(t.resp)].id,
                                         !.got = t.resp],
                               "sel", "select_session")}
               ELSE tasks' = (tasks \ {t}) \cup
                        {Issue([t EXCEPT !.kind = "newchat", !.got = t.resp],
                               "fin", "finalize_and_new_chat")}
            /\ last' = Step(t)
       ELSE /\ UNCHANGED sessions
            /\ Alert(t)
    /\ UNCHANGED <<messages, inputValue, isLoading, currentSessionId, agentStatus,
                   activeTools, backendVars, evVars, ops, menuVars, renderVars>>

\* initializeApp after its get_all_sessions has settled
InitializeAppLoaded(t) ==
    /\ t.kind = "init" /\ t.pc = "get" /\ Settled(t)
    /\ IF t.st = "ok"
       THEN /\ sessions' = t.resp
            /\ IF Len(t.resp) > 0
               THEN tasks' = (tasks \ {t}) \cup
                        {Issue([t EXCEPT !.kind = "select", !.id = t.resp[1].id,
                                         !.got = t.resp],
                               "sel", "select_session")}
               ELSE tasks' = (tasks \ {t}) \cup
                        {Issue([t EXCEPT !.kind = "newchat", !.got = t.resp],
                               "fin", "finalize_and_new_chat")}
            /\ last' = Step(t)
       ELSE /\ UNCHANGED sessions
            /\ Alert(t)
    /\ UNCHANGED <<messages, inputValue, isLoading, currentSessionId, agentStatus,
                   activeTools, backendVars, evVars, ops, menuVars, renderVars>>

\* handleRenameChat / handleDeleteChat after rename_session / delete_session settled
HandleRenameChatAcked(t) ==
    /\ t.kind = "rename" /\ t.pc = "ren" /\ Settled(t)
    /\ IF t.st = "ok"
       THEN Continue(t, "load", "get_all_sessions")
       ELSE Alert(t)
    /\ UNCHANGED <<uiVars, backendVars, evVars, ops, menuVars, renderVars>>

\* variant: the reloaded list is shown without the local title patch
HandleRenameChatLoaded_NoPatch(t) ==
    /\ t.kind = "rename" /\ t.pc = "load" /\ Settled(t)
    /\ sessions' = LoadedSessions(t)
    /\ Finish(t)
    /\ UNCHANGED <<messages, inputValue, isLoading, currentSessionId, agentStatus,
                   activeTools, backendVars, evVars, ops, menuVars, renderVars>>

\* handleRenameChat after the loadSessions it awaits has finished
HandleRenameChatLoaded(t) ==
    /\ t.kind = "rename" /\ t.pc = "load" /\ Settled(t)
    /\ sessions' = IF t.id = t.cur
                   THEN PatchTitle(LoadedSessions(t), t.id, t.title)
                   ELSE LoadedSessions(t)
    /\ Finish(t)
    /\ UNCHANGED <<messages, inputValue, isLoading, currentSessionId, agentStatus,
                   activeTools, backendVars, evVars, ops, menuVars, renderVars>>

\* variant: a failed delete_session is issued again
HandleDeleteChatAcked_Retry(t) ==
    /\ t.kind = "delete" /\ t.pc = "del" /\ Settled(t)
    /\ IF t.st = "ok"
       THEN Continue(t, "load", "get_all_sessions")
       ELSE Continue(t, "del", "delete_session")
    /\ UNCHANGED <<uiVars, backendVars, evVars, ops, menuVars, renderVars>>

HandleDeleteChatAcked(t) ==
    /\ t.kind = "delete" /\ t.pc = "del" /\ Settled(t)
    /\ IF t.st = "ok"
       THEN Continue(t, "load", "get_all_sessions")
       ELSE Alert(t)
    /\ UNCHANGED <<uiVars, backendVars, evVars, ops, menuVars, renderVars>>

\* handleDeleteChat after the loadSessions it awaits has finished
HandleDeleteChatLoaded(t) ==
    /\ t.kind = "delete" /\ t.pc = "load" /\ Settled(t)
    /\ sessions' = LoadedSessions(t)
    /\ IF t.id = t.cur
       THEN /\ currentSessionId' = Null
            /\ messages' = <<>>
       ELSE UNCHANGED <<currentSessionId, messages>>
    /\ Finish(t)
    /\ UNCHANGED <<inputValue, isLoading, agentStatus, activeTools, backendVars, evVars, ops, menuVars, renderVars>>

\* what is remembered of the agent events once no send is in flight, or when a
\* send starts: nothing when every emitted event has been delivered
Forget == IF evq = <<>> THEN NoEvents ELSE [eg EXCEPT !.arrived = FALSE]

\* handleSendMessage after run_agent_task has settled
HandleSendMessageSettled(t) ==
    /\ t.kind = "send" /\ t.pc = "run" /\ Settled(t)
    /\ IF t.st = "ok"
       THEN /\ messages' = Append(messages, AssistantMsg(t.resp))
            /\ Continue(t, "load", "get_all_sessions")
            /\ UNCHANGED <<isLoading, agentStatus, eg>>
       ELSE /\ messages' = Append(messages, ErrorMsg(t.resp))
            /\ isLoading' = FALSE
            /\ agentStatus' = "null"
            /\ eg' = Forget
            /\ Finish(t)
    /\ UNCHANGED <<inputValue, sessions, currentSessionId, activeTools, backendVars, evq, ops, menuVars, renderVars>>

\* variant: finally resets the loading flag only
HandleSendMessageLoaded_KeepsStatus(t) ==
    /\ t.kind = "send" /\ t.pc = "load" /\ Settled(t)
    /\ sessions' = LoadedSessions(t)
    /\ isLoading' = FALSE
    /\ eg' = Forget
    /\ Finish(t)
    /\ UNCHANGED <<messages, inputValue, currentSessionId, agentStatus, activeTools,
                   backendVars, evq, ops, menuVars, renderVars>>

\* handleSendMessage after the loadSessions it awaits has finished, then finally
HandleSendMessageLoaded(t) ==
    /\ t.kind = "send" /\ t.pc = "load" /\ Settled(t)
    /\ sessions' = LoadedSessions(t)
    /\ isLoading' = FALSE
    /\ agentStatus' = "null"
    /\ eg' = Forget
    /\ Finish(t)
    /\ UNCHANGED <<messages, inputValue, currentSessionId, activeTools, backendVars, evq, ops, menuVars, renderVars>>

\* ------------------------------------------------------- user operations
CanStart == /\ ops < MaxOps
            /\ Cardinality(tasks) < MaxTasks

Start(task) == /\ tasks' = tasks \cup {[task EXCEPT !.n = ops + 1]}
               /\ ops' = ops + 1
               /\ last' = [Step([task EXCEPT !.n = ops + 1]) EXCEPT !.act = "start"]

\* Sidebar "+ New Chat": handleNewChat up to its await
\* what the current session looks like on screen: empty and untitled, used, or none
CurrentKind ==
    IF currentSessionId = Null THEN "none"
    ELSE IF messages # <<>> THEN "used"
    ELSE IF currentSessionId \notin Ids(sessions) THEN "unlisted"
    ELSE IF Find(sessions, currentSessionId).title = NewChatTitle THEN "empty"
    ELSE "used"

HandleNewChat ==
    /\ CanStart
    /\ Start(Issue([Idle EXCEPT !.kind = "newchat", !.cur = currentSessionId,
                                !.curKind = CurrentKind],
                   "fin", "finalize_and_new_chat"))
    /\ UNCHANGED <<uiVars, backendVars, evVars, menuVars, renderVars>>

\* Sidebar click on a listed session: handleSelectSession up to its await
HandleSelectSession(id) ==
    /\ CanStart
    /\ id \in Ids(sessions)
    /\ Start(Issue([Idle EXCEPT !.kind = "select", !.id = id, !.cur = currentSessionId],
                   "sel", "select_session"))
    /\ UNCHANGED <<uiVars, backendVars, evVars, menuVars, renderVars>>

\* Sidebar rename box: onRenameChat(s.id, newTitle), handleRenameChat up to its await
HandleRenameChat(id, newTitle) ==
    /\ CanStart
    /\ id \in Ids(sessions)
    /\ newTitle # Find(sessions, id).title
    /\ Start(Issue([Idle EXCEPT !.kind = "rename", !.id = id, !.title = newTitle,
                                !.cur = currentSessionId],
                   "ren", "rename_session"))
    /\ UNCHANGED <<uiVars, backendVars, evVars, menuVars, renderVars>>

\* Sidebar menu Delete: handleDeleteChat up to its await
HandleDeleteChat(id) ==
    /\ CanStart
    /\ id \in Ids(sessions)
    /\ Start(Issue([Idle EXCEPT !.kind = "delete", !.id = id, !.cur = currentSessionId],
                   "del", "delete_session"))
    /\ UNCHANGED <<uiVars, backendVars, evVars, menuVars, renderVars>>

\* variant: the call is issued without the active tools
HandleSendMessage_NoTools(v) ==
    /\ ops < MaxOps
    /\ LET typed == IF isLoading THEN inputValue ELSE v
           trimmedValue == Trim(typed)
       IN IF ~(trimmedValue # <<>>) \/ isLoading
          THEN /\ inputValue' = typed
               /\ last' = [NoLast EXCEPT !.act = "noop"]
               /\ ops' = ops + 1
               /\ UNCHANGED <<messages, isLoading, sessions, currentSessionId, agentStatus,
                              activeTools, tasks, eg>>
          ELSE /\ Cardinality(tasks) < MaxTasks
               /\ inputValue' = <<>>
               /\ isLoading' = TRUE
               /\ agentStatus' = "null"
               /\ eg' = Forget
               /\ messages' = Append(messages, UserMsg(trimmedValue))
               /\ Start(Issue([Idle EXCEPT !.kind = "send", !.txt = trimmedValue,
                                           !.tools = <<>>, !.sid = currentSessionId,
                                           !.typed = typed,
                                           !.m0 = messages, !.cur = currentSessionId],
                              "run", "run_agent_task"))
               /\ UNCHANGED <<sessions, currentSessionId, activeTools>>
    /\ UNCHANGED <<backendVars, evq, menuVars, renderVars>>

\* variant: the input is tested and sent as typed
HandleSendMessage_Untrimmed(v) ==
    /\ ops < MaxOps
    /\ LET typed == IF isLoading THEN inputValue ELSE v
           trimmedValue == typed
       IN IF ~(trimmedValue # <<>>) \/ isLoading
          THEN /\ inputValue' = typed
               /\ last' = [NoLast EXCEPT !.act = "noop"]
               /\ ops' = ops + 1
               /\ UNCHANGED <<messages, isLoading, sessions, currentSessionId, agentStatus,
                              activeTools, tasks, eg>>
          ELSE /\ Cardinality(tasks) < MaxTasks
               /\ inputValue' = <<>>
               /\ isLoading' = TRUE
               /\ agentStatus' = "null"
               /\ eg' = Forget
               /\ messages' = Append(messages, UserMsg(trimmedValue))
               /\ Start(Issue([Idle EXCEPT !.kind = "send", !.txt = trimmedValue,
                                           !.tools = activeTools, !.sid = currentSessionId,
                                           !.typed = typed,
                                           !.m0 = messages, !.cur = currentSessionId],
                              "run", "run_agent_task"))
               /\ UNCHANGED <<sessions, currentSessionId, activeTools>>
    /\ UNCHANGED <<backendVars, evq, menuVars, renderVars>>

\* variant: the box and the handler work while a send is in flight
HandleSendMessage_WhileLoading(v) ==
    /\ ops < MaxOps
    /\ LET typed == v
           trimmedValue == Trim(typed)
       IN IF ~(trimmedValue # <<>>)
          THEN /\ inputValue' = typed
               /\ last' = [NoLast EXCEPT !.act = "noop"]
               /\ ops' = ops + 1
               /\ UNCHANGED <<messages, isLoading, sessions, currentSessionId, agentStatus,
                              activeTools, tasks, eg>>
          ELSE /\ Cardinality(tasks) < MaxTasks
               /\ inputValue' = <<>>
               /\ isLoading' = TRUE
               /\ agentStatus' = "null"
               /\ eg' = Forget
               /\ messages' = Append(messages, UserMsg(trimmedValue))
               /\ Start(Issue([Idle EXCEPT !.kind = "send", !.txt = trimmedValue,
                                           !.tools = activeTools, !.sid = currentSessionId,
                                           !.typed = typed,
                                           !.m0 = messages, !.cur = currentSessionId],
                              "run", "run_agent_task"))
               /\ UNCHANGED <<sessions, currentSessionId, activeTools>>
    /\ UNCHANGED <<backendVars, evq, menuVars, renderVars>>

\* the user types v into the input box (setInputValue(e.target.value); the box is
\* disabled while loading) and presses Send / Enter: handleSendMessage up to its await
HandleSendMessage(v) ==
    /\ ops < MaxOps
    /\ LET typed == IF isLoading THEN inputValue ELSE v
           trimmedValue == Trim(typed)
       IN IF ~(trimmedValue # <<>>) \/ isLoading
          THEN /\ inputValue' = typed
               /\ last' = [NoLast EXCEPT !.act = "noop"]
               /\ ops' = ops + 1
               /\ UNCHANGED <<messages, isLoading, sessions, currentSessionId, agentStatus,
                              activeTools, tasks, eg>>
          ELSE /\ Cardinality(tasks) < MaxTasks
               /\ inputValue' = <<>>
               /\ isLoading' = TRUE
               /\ agentStatus' = "null"
               /\ eg' = Forget
               /\ messages' = Append(messages, UserMsg(trimmedValue))
               /\ Start(Issue([Idle EXCEPT !.kind = "send", !.txt = trimmedValue,
                                           !.tools = activeTools, !.sid = currentSessionId,
                                           !.typed = typed,
                                           !.m0 = messages, !.cur = currentSessionId],
                              "run", "run_agent_task"))
               /\ UNCHANGED <<sessions, currentSessionId, activeTools>>
    /\ UNCHANGED <<backendVars, evq, menuVars, renderVars>>

\* variant: the filter keeps the clicked tool instead of dropping it
ToggleTool_KeepsClicked(prev, toolName) ==
    IF \E i \in 1..Len(prev) : prev[i] = toolName
    THEN SelectSeq(prev, LAMBDA x : x = toolName)
    ELSE Append(prev, toolName)

\* variant: a tool that is already enabled stays enabled
ToggleTool_AddOnly(prev, toolName) ==
    IF \E i \in 1..Len(prev) : prev[i] = toolName
    THEN prev
    ELSE Append(prev, toolName)

\* prev.includes(toolName) ? prev.filter((t) => t !== toolName) : [...prev, toolName]
ToggleTool(prev, toolName) ==
    IF \E i \in 1..Len(prev) : prev[i] = toolName
    THEN SelectSeq(prev, LAMBDA x : x # toolName)
    ELSE Append(prev, toolName)

\* handleToggleTool
HandleToggleTool(toolName) ==
    /\ activeTools' = ToggleTool(activeTools, toolName)
    /\ ops < MaxOps
    /\ ops' = ops + 1
    /\ last' = [NoLast EXCEPT !.act = "toggle", !.tool = toolName,
                              !.prevTools = activeTools, !.prevAct = last.act]
    /\ UNCHANGED <<messages, inputValue, isLoading, sessions, currentSessionId, agentStatus,
                   tasks, backendVars, evVars, menuVars, renderVars>>

\* the backend emits an agent_event while it works on a run_agent_task
EmitAgentEvent(s) ==
    /\ \E t \in tasks : t.pc = "run" /\ t.st = "sent"
    /\ Len(evq) < MaxEvents
    /\ evq' = Append(evq, s)
    /\ eg' = [eg EXCEPT !.emitted = s]
    /\ last' = NoLast
    /\ UNCHANGED <<uiVars, tasks, backendVars, ops, menuVars, renderVars>>

\* variant: an event that carries no status is ignored
OnAgentEvent_SkipsNull ==
    /\ evq # <<>>
    /\ agentStatus' = IF Head(evq) = "null" THEN agentStatus ELSE Head(evq)
    /\ evq' = Tail(evq)
    /\ eg' = IF \E t \in tasks : t.kind = "send"
             THEN [eg EXCEPT !.arrived = TRUE]
             ELSE IF Tail(evq) = <<>> THEN NoEvents ELSE eg
    /\ last' = [NoLast EXCEPT !.act = "event", !.prevStatus = agentStatus]
    /\ UNCHANGED <<messages, inputValue, isLoading, sessions, currentSessionId,
                   activeTools, tasks, backendVars, ops, menuVars, renderVars>>

\* listen("agent_event", ...): setAgentStatus(event.payload.status)
OnAgentEvent ==
    /\ evq # <<>>
    /\ agentStatus' = Head(evq)
    /\ evq' = Tail(evq)
    /\ eg' = IF \E t \in tasks : t.kind = "send"
             THEN [eg EXCEPT !.arrived = TRUE]
             ELSE IF Tail(evq) = <<>> THEN NoEvents ELSE eg
    /\ last' = [NoLast EXCEPT !.act = "event", !.prevStatus = agentStatus]
    /\ UNCHANGED <<messages, inputValue, isLoading, sessions, currentSessionId,
                   activeTools, tasks, backendVars, ops, menuVars, renderVars>>

Next ==
    \/ \E t \in tasks : Backend(t)
    \/ \E t \in tasks : InitializeAppLoaded(t)
    \/ \E t \in tasks : HandleNewChatResume(t)
    \/ \E t \in tasks : HandleSelectSessionSelected(t)
    \/ \E t \in tasks : HandleSelectSessionLoaded(t)
    \/ \E t \in tasks : HandleRenameChatAcked(t)
    \/ \E t \in tasks : HandleRenameChatLoaded(t)
    \/ \E t \in tasks : HandleDeleteChatAcked(t)
    \/ \E t \in tasks : HandleDeleteChatLoaded(t)
    \/ \E t \in tasks : HandleSendMessageSettled(t)
    \/ \E t \in tasks : HandleSendMessageLoaded(t)
    \/ HandleNewChat
    \/ \E id \in 1..MaxSessions : HandleSelectSession(id)
    \/ \E id \in 1..MaxSessions, newTitle \in Titles : HandleRenameChat(id, newTitle)
    \/ \E id \in 1..MaxSessions : HandleDeleteChat(id)
    \/ \E v \in Inputs : HandleSendMessage(v)
    \/ \E toolName \in Tools : HandleToggleTool(toolName)
    \/ \E s \in Statuses : EmitAgentEvent(s)
    \/ OnAgentEvent

Spec == Init /\ [][Next]_vars

\* ------------------------------------------ the active tool set on its own
SetOf(seq) == {seq[i] : i \in 1..Len(seq)}

\* the lists without repetition over the tools
ToolLists == {<<>>} \cup {<<a>> : a \in AllTools}
               \cup {<<a, b>> : <<a, b>> \in {p \in AllTools \X AllTools : p[1] # p[2]}}
               \cup {<<"A", "B", "C">>, <<"C", "B", "A">>}

\* replaceAll(toolNames): setActiveTools(toolNames), the set is overwritten
ReplaceAll(toolNames) ==
    /\ ops < MaxOps
    /\ activeTools' = toolNames
    /\ ops' = ops + 1
    /\ last' = [NoLast EXCEPT !.act = "replaceAll", !.arg = toolNames,
                              !.prevTools = activeTools, !.prevAct = last.act]
    /\ UNCHANGED <<appVars, menuVars, renderVars>>

ToolSetInit ==
    /\ messages = <<>> /\ inputValue = <<>> /\ isLoading = FALSE
    /\ sessions = <<>> /\ currentSessionId = Null /\ agentStatus = "null"
    /\ activeTools = <<>>
    /\ tasks = {} /\ bSessions = <<>> /\ bCurrent = Null /\ bNext = 1
    /\ evq = <<>> /\ eg = NoEvents /\ NotRendered /\ ops = 0 /\ last = NoLast
    /\ MenuIdle

ToolSetNext ==
    \/ \E toolNames \in ToolLists : ReplaceAll(toolNames)
    \/ \E toolName \in AllTools : HandleToggleTool(toolName)

ToolSetSpec == ToolSetInit /\ [][ToolSetNext]_vars


\* ------------------------------------------------ McpToolsMenu: the menu
\* the calls in flight are a bag: two equal calls can be in flight together
One(c) == SetToBag({c})

MenuCall(kind, server, gen) ==
    [NoCall EXCEPT !.kind = kind, !.server = server, !.st = "sent", !.gen = gen]

\* loadServerStatus up to its await: invoke("get_mcp_servers")
LoadServerStatus(calls, gen) == calls (+) One(MenuCall("servers", "", gen))

\* fetchToolsForServer up to its await: invoke('get_discovered_tools', { serverName })
FetchToolsForServer(calls, serverName, gen) ==
    calls (+) One(MenuCall("tools", serverName, gen))

\* serverList.forEach((server) => { if (server.status === "running") fetch... })
RECURSIVE FetchRunning(_, _, _)
FetchRunning(calls, serverList, gen) ==
    IF serverList = <<>> THEN calls
    ELSE FetchRunning(IF Head(serverList).status = "running"
                      THEN FetchToolsForServer(calls, Head(serverList).name, gen)
                      ELSE calls,
                      Tail(serverList), gen)

ServersInFlight == \E c \in BagToSet(mcalls) : c.kind = "servers"

\* the effect run that is mounted: the second one in a development build
LiveGen == IF listeners[2].st # "none" THEN 2 ELSE 1

\* get_mcp_servers as the backend answers it
ServerList == [i \in 1..Len(Servers) |-> [name |-> Servers[i], status |-> bServers[Servers[i]]]]

MenuSettle(c, st, resp) ==
    mcalls' = (mcalls (-) One(c)) (+) One([c EXCEPT !.st = st, !.resp = resp])

\* the backend processes one call of the menu; any call may fail
MenuBackend(c) ==
    /\ c.st = "sent"
    /\ \/ MenuSettle(c, "err", <<>>)
       \/ c.kind = "servers" /\ MenuSettle(c, "ok", ServerList)
       \/ c.kind = "tools" /\ MenuSettle(c, "ok", IF bServers[c.server] = "running"
                                                  THEN McpTools[c.server] ELSE <<>>)
    /\ mlast' = NoMenuLast
    /\ last' = NoLast
    /\ UNCHANGED <<appVars, renderVars, activeTools, ops, servers, discoveredTools,
                   selectedServerName, isOpen, listeners, mevq, bServers, mg>>

\* the tools of the servers a server list reports as running
ToolsOfRunning(serverList) ==
    UNION {SetOf(McpTools[serverList[i].name]) :
              i \in {j \in 1..Len(serverList) : serverList[j].status = "running"}}

\* variant: the re-query drops the tools of servers that no longer run
LoadServerStatusLoaded_Prunes(c) ==
    /\ c.kind = "servers" /\ c.st \in {"ok", "err"}
    /\ IF c.st = "ok"
       THEN /\ servers' = c.resp
            /\ mcalls' = FetchRunning(mcalls (-) One(c), c.resp, c.gen)
            /\ activeTools' = SelectSeq(activeTools, LAMBDA x : x \in ToolsOfRunning(c.resp))
       ELSE /\ mcalls' = mcalls (-) One(c)
            /\ UNCHANGED <<servers, activeTools>>
    /\ mlast' = [act |-> "servers", gen |-> c.gen]
    /\ last' = NoLast
    /\ UNCHANGED <<appVars, renderVars, ops, discoveredTools, selectedServerName,
                   isOpen, listeners, mevq, bServers, mg>>

\* loadServerStatus after get_mcp_servers has settled
LoadServerStatusLoaded(c) ==
    /\ c.kind = "servers" /\ c.st \in {"ok", "err"}
    /\ IF c.st = "ok"
       THEN /\ servers' = c.resp
            /\ mcalls' = FetchRunning(mcalls (-) One(c), c.resp, c.gen)
       ELSE /\ mcalls' = mcalls (-) One(c)
            /\ UNCHANGED servers
    /\ mlast' = [act |-> "servers", gen |-> c.gen]
    /\ last' = NoLast
    /\ UNCHANGED <<appVars, renderVars, activeTools, ops, discoveredTools, selectedServerName,
                   isOpen, listeners, mevq, bServers, mg>>

\* fetchToolsForServer after get_discovered_tools has settled
FetchToolsLoaded(c) ==
    /\ c.kind = "tools" /\ c.st \in {"ok", "err"}
    /\ IF c.st = "ok"
       THEN discoveredTools' = [discoveredTools EXCEPT ![c.server] =
                                   [has |-> TRUE, tools |-> c.resp]]
       ELSE UNCHANGED discoveredTools
    /\ mcalls' = mcalls (-) One(c)
    /\ mlast' = [act |-> "tools", gen |-> c.gen]
    /\ last' = NoLast
    /\ UNCHANGED <<appVars, renderVars, activeTools, ops, servers, selectedServerName,
                   isOpen, listeners, mevq, bServers, mg>>

\* ----------------------------------------------- the status-change channel
\* the backend registers a listener; the listen() promise has not resolved yet
ListenRegistered(g) ==
    /\ listeners[g].st = "pending"
    /\ listeners' = [listeners EXCEPT ![g].st = "registered"]
    /\ mlast' = NoMenuLast
    /\ last' = NoLast
    /\ UNCHANGED <<appVars, renderVars, activeTools, ops, servers, discoveredTools,
                   selectedServerName, isOpen, mcalls, mevq, bServers, mg>>

\* the listen() promise of a subscription whose cleanup has run resolves:
\* unlisten.then(f => f()) cancels it now
ListenResolved(g) ==
    /\ listeners[g].st = "registered" /\ listeners[g].torn
    /\ listeners' = [listeners EXCEPT ![g].st = "gone"]
    /\ mlast' = NoMenuLast
    /\ last' = NoLast
    /\ UNCHANGED <<appVars, renderVars, activeTools, ops, servers, discoveredTools,
                   selectedServerName, isOpen, mcalls, mevq, bServers, mg>>

\* the subscriptions an emitted event is delivered to
Subscribed == SelectSeq(<<1, 2>>, LAMBDA g : listeners[g].st = "registered")

\* a server starts or stops; the backend emits mcp_server_status_changed
ServerStatusChange(s) ==
    /\ mg.changes < MaxChanges
    /\ bServers' = [bServers EXCEPT ![s] = IF @ = "running" THEN "stopped" ELSE "running"]
    /\ mevq' = mevq \o Subscribed
    /\ mg' = [mg EXCEPT !.changes = @ + 1]
    /\ mlast' = NoMenuLast
    /\ last' = NoLast
    /\ UNCHANGED <<appVars, renderVars, activeTools, ops, servers, discoveredTools,
                   selectedServerName, isOpen, mcalls, listeners>>

\* variant: a notification that arrives during a re-query starts no second one
OnServerStatusChanged_SkipsWhenBusy ==
    /\ mevq # <<>>
    /\ mcalls' = IF ServersInFlight THEN mcalls ELSE LoadServerStatus(mcalls, Head(mevq))
    /\ mevq' = Tail(mevq)
    /\ mg' = [mg EXCEPT !.overlap = @ \/ ServersInFlight]
    /\ mlast' = [act |-> "event", gen |-> Head(mevq)]
    /\ last' = NoLast
    /\ UNCHANGED <<appVars, renderVars, activeTools, ops, servers, discoveredTools,
                   selectedServerName, isOpen, listeners, bServers>>

\* listen('mcp_server_status_changed', ...): the handler calls loadServerStatus()
OnServerStatusChanged ==
    /\ mevq # <<>>
    /\ mcalls' = LoadServerStatus(mcalls, Head(mevq))
    /\ mevq' = Tail(mevq)
    /\ mg' = [mg EXCEPT !.overlap = @ \/ ServersInFlight]
    /\ mlast' = [act |-> "event", gen |-> Head(mevq)]
    /\ last' = NoLast
    /\ UNCHANGED <<appVars, renderVars, activeTools, ops, servers, discoveredTools,
                   selectedServerName, isOpen, listeners, bServers>>

\* ------------------------------------------------------- clicks in the menu
Click == /\ mg.clicks < MaxClicks
         /\ mg' = [mg EXCEPT !.clicks = @ + 1]
         /\ mlast' = NoMenuLast
         /\ last' = NoLast

\* the Tools button: setIsOpen(!isOpen)
ToggleMenu ==
    /\ Click
    /\ isOpen' = ~isOpen
    /\ UNCHANGED <<appVars, renderVars, activeTools, ops, servers, discoveredTools,
                   selectedServerName, mcalls, listeners, mevq, bServers>>

\* handleClickOutside
ClickOutside ==
    /\ Click
    /\ isOpen
    /\ isOpen' = FALSE
    /\ selectedServerName' = ""
    /\ UNCHANGED <<appVars, renderVars, activeTools, ops, servers, discoveredTools,
                   mcalls, listeners, mevq, bServers>>

\* handleServerClick on an entry of the rendered server list
HandleServerClick(i) ==
    /\ Click
    /\ isOpen /\ selectedServerName = ""
    /\ i \in 1..Len(servers)
    /\ servers[i].status = "running"
    /\ mcalls' = IF ~discoveredTools[servers[i].name].has
                 THEN FetchToolsForServer(mcalls, servers[i].name, LiveGen)
                 ELSE mcalls
    /\ selectedServerName' = servers[i].name
    /\ UNCHANGED <<appVars, renderVars, activeTools, ops, servers, discoveredTools,
                   isOpen, listeners, mevq, bServers>>

\* the back button of the tool list: setSelectedServerName(null)
BackClick ==
    /\ Click
    /\ isOpen /\ selectedServerName # ""
    /\ selectedServerName' = ""
    /\ UNCHANGED <<appVars, renderVars, activeTools, ops, servers, discoveredTools,
                   isOpen, mcalls, listeners, mevq, bServers>>

\* renderToolList: the tools shown with a checkbox
Offered == IF isOpen /\ selectedServerName # ""
           THEN SetOf(discoveredTools[selectedServerName].tools)
           ELSE {}

\* a checkbox of the tool list: onChange={() => onToggleTool(toolName)}
ToolCheckboxClick(toolName) ==
    /\ toolName \in Offered
    /\ HandleToggleTool(toolName)

\* the effect of McpToolsMenu has run: once in a production build; in a
\* development build React.StrictMode runs it, its cleanup, and it again
MenuMounted(build) ==
    IF build = "production"
    THEN /\ mcalls = LoadServerStatus(EmptyBag, 1)
         /\ listeners = [g \in 1..2 |-> IF g = 1 THEN [st |-> "pending", torn |-> FALSE]
                                                  ELSE NoListener]
         /\ mg = [changes |-> 0, clicks |-> 0, overlap |-> FALSE]
    ELSE /\ mcalls = LoadServerStatus(LoadServerStatus(EmptyBag, 1), 2)
         /\ listeners = [g \in 1..2 |-> [st |-> "pending", torn |-> (g = 1)]]
         /\ mg = [changes |-> 0, clicks |-> 0, overlap |-> TRUE]

MenuUnmounted ==
    /\ messages = <<>> /\ inputValue = <<>> /\ isLoading = FALSE
    /\ sessions = <<>> /\ currentSessionId = Null /\ agentStatus = "null"
    /\ activeTools = <<>>
    /\ tasks = {} /\ bSessions = <<>> /\ bCurrent = Null /\ bNext = 1
    /\ evq = <<>> /\ eg = NoEvents /\ NotRendered /\ ops = 0 /\ last = NoLast
    /\ servers = <<>>
    /\ discoveredTools = [s \in ServerNames |-> NoTools]
    /\ selectedServerName = ""
    /\ isOpen = FALSE
    /\ mevq = <<>>
    /\ mlast = NoMenuLast

\* the tools menu in a production build
MenuInit ==
    /\ MenuUnmounted
    /\ bServers \in [ServerNames -> {"running", "stopped"}]
    /\ MenuMounted("production")

MenuCalls ==
    \/ \E c \in BagToSet(mcalls) : MenuBackend(c)
    \/ \E c \in BagToSet(mcalls) : LoadServerStatusLoaded(c)
    \/ \E c \in BagToSet(mcalls) : FetchToolsLoaded(c)

MenuNext ==
    \/ MenuCalls
    \/ \E g \in 1..2 : ListenRegistered(g)
    \/ \E s \in ServerNames : ServerStatusChange(s)
    \/ OnServerStatusChanged
    \/ ToggleMenu
    \/ ClickOutside
    \/ \E i \in 1..Len(Servers) : HandleServerClick(i)
    \/ BackClick
    \/ \E toolName \in AllTools : ToolCheckboxClick(toolName)

MenuSpec == MenuInit /\ [][MenuNext]_vars

\* the tools menu in a development build (main.tsx renders App in React.StrictMode)
StrictInit ==
    /\ MenuUnmounted
    /\ bServers \in {[s \in ServerNames |-> IF s = Servers[1] THEN st ELSE "stopped"] :
                        st \in {"running", "stopped"}}
    /\ MenuMounted("development")

StrictNext ==
    \/ MenuCalls
    \/ \E g \in 1..2 : ListenRegistered(g)
    \/ \E g \in 1..2 : ListenResolved(g)
    \/ \E s \in ServerNames : ServerStatusChange(s)
    \/ OnServerStatusChanged

StrictSpec == StrictInit /\ [][StrictNext]_vars

\* App in a development build: the mount effect has run, its cleanup has run, and
\* it has run again; both initializeApp() calls await get_all_sessions
StrictAppInit ==
    /\ messages = <<>> /\ inputValue = <<>> /\ isLoading = FALSE
    /\ sessions = <<>> /\ currentSessionId = Null /\ agentStatus = "null"
    /\ activeTools = <<>>
    /\ bSessions \in InitBackends /\ bCurrent = Null /\ bNext = Len(bSessions) + 1
    /\ evq = <<>> /\ eg = NoEvents /\ NotRendered /\ ops = 0 /\ last = NoLast
    /\ tasks = {Issue([Idle EXCEPT !.kind = "init", !.fromInit = TRUE, !.torn = torn],
                       "get", "get_all_sessions") : torn \in BOOLEAN}
    /\ MenuIdle

StrictAppSpec == StrictAppInit /\ [][Next]_vars

\* --------------------------------------- SmartContentRenderer: detectFormat
\* texts are sequences of characters; a character is a string of length one
Quote == "\""
Backslash == "\\"
Whitespace == {" ", "\n", "\t", "\r"}
Digits == {"0", "1", "2", "3", "4", "5", "6", "7", "8", "9"}
Letters == {"a", "h", "t", "m", "l", "D", "O", "C", "T", "Y", "P", "E"}
\* the characters that may follow a backslash inside a JSON string
Escapes == {Quote, Backslash, "/", "b", "f", "n", "r", "t"}

\* the backquote character; a string cannot hold it, so it is written ^
Backtick == "^"
Fence == <<Backtick, Backtick, Backtick>>
HtmlPrefix == <<"<", "h", "t", "m", "l">>
DoctypePrefix == <<"<", "!", "D", "O", "C", "T", "Y", "P", "E">>

\* String.prototype.trim: the whitespace at both ends is dropped
RECURSIVE TrimLeft(_)
TrimLeft(s) == IF s # <<>> /\ Head(s) \in Whitespace THEN TrimLeft(Tail(s)) ELSE s

RECURSIVE TrimRight(_)
TrimRight(s) == IF s # <<>> /\ s[Len(s)] \in Whitespace
                THEN TrimRight(SubSeq(s, 1, Len(s) - 1)) ELSE s

TrimText(s) == TrimRight(TrimLeft(s))

StartsWith(s, p) == Len(p) <= Len(s) /\ SubSeq(s, 1, Len(p)) = p
EndsWith(s, p) == Len(p) <= Len(s) /\ SubSeq(s, Len(s) - Len(p) + 1, Len(s)) = p
Includes(s, p) == \E i \in 1..(Len(s) - Len(p) + 1) : SubSeq(s, i, i + Len(p) - 1) = p

\* ------------------------------------------------------------- JSON.parse
\* each operator takes the text and a position and gives the position after
\* what it has read, or 0 when the text is not JSON there
RECURSIVE SkipWhitespace(_, _)
SkipWhitespace(s, i) ==
    IF i <= Len(s) /\ s[i] \in Whitespace THEN SkipWhitespace(s, i + 1) ELSE i

\* the rest of a string, from the character after its opening quote
RECURSIVE JsonStringEnd(_, _)
JsonStringEnd(s, i) ==
    IF i > Len(s) THEN 0
    ELSE IF s[i] = Quote THEN i + 1
    ELSE IF s[i] = Backslash
         THEN IF i + 1 <= Len(s) /\ s[i + 1] \in Escapes
              THEN JsonStringEnd(s, i + 2) ELSE 0
    ELSE IF s[i] \in {"\n", "\t", "\r"} THEN 0
    ELSE JsonStringEnd(s, i + 1)

RECURSIVE SkipDigits(_, _)
SkipDigits(s, i) == IF i <= Len(s) /\ s[i] \in Digits THEN SkipDigits(s, i + 1) ELSE i

\* -? (0 | [1-9][0-9]*) (. [0-9]+)?
JsonNumberEnd(s, i) ==
    LET a == IF s[i] = "-" THEN i + 1 ELSE i
        b == IF a > Len(s) \/ s[a] \notin Digits THEN 0
             ELSE IF s[a] = "0" THEN a + 1 ELSE SkipDigits(s, a)
    IN IF b = 0 THEN 0
       ELSE IF b <= Len(s) /\ s[b] = "."
            THEN IF SkipDigits(s, b + 1) = b + 1 THEN 0 ELSE SkipDigits(s, b + 1)
            ELSE b

RECURSIVE JsonValueEnd(_, _)
RECURSIVE JsonMembersEnd(_, _)
RECURSIVE JsonElementsEnd(_, _)

\* "key" : value, then "," and more members or the closing brace
JsonMembersEnd(s, i) ==
    IF i > Len(s) \/ s[i] # Quote THEN 0
    ELSE LET a == JsonStringEnd(s, i + 1)
             b == SkipWhitespace(s, a)
         IN IF a = 0 \/ b > Len(s) \/ s[b] # ":" THEN 0
            ELSE LET c == JsonValueEnd(s, SkipWhitespace(s, b + 1))
                     d == SkipWhitespace(s, c)
                 IN IF c = 0 \/ d > Len(s) THEN 0
                    ELSE IF s[d] = "}" THEN d + 1
                    ELSE IF s[d] = "," THEN JsonMembersEnd(s, SkipWhitespace(s, d + 1))
                    ELSE 0

\* value, then "," and more elements or the closing bracket
JsonElementsEnd(s, i) ==
    LET c == JsonValueEnd(s, i)
        d == SkipWhitespace(s, c)
    IN IF c = 0 \/ d > Len(s) THEN 0
       ELSE IF s[d] = "]" THEN d + 1
       ELSE IF s[d] = "," THEN JsonElementsEnd(s, SkipWhitespace(s, d + 1))
       ELSE 0

JsonLiteralEnd(s, i, word) ==
    IF i + Len(word) - 1 <= Len(s) /\ SubSeq(s, i, i + Len(word) - 1) = word
    THEN i + Len(word) ELSE 0

JsonValueEnd(s, i) ==
    IF i > Len(s) THEN 0
    ELSE IF s[i] = "{"
         THEN LET j == SkipWhitespace(s, i + 1)
              IN IF j <= Len(s) /\ s[j] = "}" THEN j + 1 ELSE JsonMembersEnd(s, j)
    ELSE IF s[i] = "["
         THEN LET j == SkipWhitespace(s, i + 1)
              IN IF j <= Len(s) /\ s[j] = "]" THEN j + 1 ELSE JsonElementsEnd(s, j)
    ELSE IF s[i] = Quote THEN JsonStringEnd(s, i + 1)
    ELSE IF s[i] \in Digits \cup {"-"} THEN JsonNumberEnd(s, i)
    ELSE IF s[i] = "t" THEN JsonLiteralEnd(s, i, <<"t", "r", "u", "e">>)
    ELSE IF s[i] = "f" THEN JsonLiteralEnd(s, i, <<"f", "a", "l", "s", "e">>)
    ELSE IF s[i] = "n" THEN JsonLiteralEnd(s, i, <<"n", "u", "l", "l">>)
    ELSE 0

\* JSON.parse(s) returns instead of throwing
JsonParses(s) ==
    LET e == JsonValueEnd(s, SkipWhitespace(s, 1))
    IN e # 0 /\ SkipWhitespace(s, e) = Len(s) + 1

\* /^```[a-zA-Z]*\n[\s\S]*\n```$/.test(trimmed)
FencedBlock(s) ==
    /\ StartsWith(s, Fence)
    /\ EndsWith(s, <<"\n">> \o Fence)
    /\ \E i \in 4..(Len(s) - 4) :
          /\ s[i] = "\n"
          /\ \A j \in 4..(i - 1) : s[j] \in Letters

\* the conditions of detectFormat, in the order of the source
IsJson(trimmed) ==
    StartsWith(trimmed, <<"{">>) /\ EndsWith(trimmed, <<"}">>) /\ JsonParses(trimmed)

\* variant: any text that starts with "<" and has a ">" is XML
IsXml_NoClosingTag(trimmed) ==
    StartsWith(trimmed, <<"<">>) /\ Includes(trimmed, <<">">>)

IsXml(trimmed) ==
    /\ StartsWith(trimmed, <<"<">>) /\ Includes(trimmed, <<">">>)
    /\ Includes(trimmed, <<"<", "/">>)

\* variant: only the two prefixes make a text HTML
IsHtml_PrefixOnly(trimmed) ==
    StartsWith(trimmed, HtmlPrefix) \/ StartsWith(trimmed, DoctypePrefix)

IsHtml(trimmed) ==
    \/ StartsWith(trimmed, HtmlPrefix) \/ StartsWith(trimmed, DoctypePrefix)
    \/ /\ StartsWith(trimmed, <<"<">>) /\ Includes(trimmed, <<"<", "/">>)
       /\ ~Includes(trimmed, Fence)

IsCode(trimmed) == Includes(trimmed, Fence) \/ Includes(trimmed, <<Backtick>>)

IsMarkdown(trimmed) ==
    \/ Includes(trimmed, <<"#">>) \/ Includes(trimmed, <<"*", "*">>)
    \/ Includes(trimmed, <<"*">>) \/ Includes(trimmed, <<"[">>)
    \/ Includes(trimmed, <<"!", "[">>) \/ Includes(trimmed, <<"-", " ">>)

\* variant: the Markdown markers are looked for before JSON is tried
detectFormat_MarkdownFirst(text) ==
    LET trimmed == TrimText(text)
    IN IF IsCode(trimmed) \/ IsMarkdown(trimmed) THEN "markdown"
       ELSE IF IsJson(trimmed) THEN "json"
       ELSE IF IsXml(trimmed) THEN "xml"
       ELSE IF IsHtml(trimmed) THEN "html"
       ELSE "markdown"

\* variant: an empty trimmed text is plain text
detectFormat_EmptyIsText(text) ==
    LET trimmed == TrimText(text)
    IN IF trimmed = <<>> THEN "text"
       ELSE IF IsJson(trimmed) THEN "json"
       ELSE IF IsXml(trimmed) THEN "xml"
       ELSE IF IsHtml(trimmed) THEN "html"
       ELSE IF FencedBlock(trimmed) THEN "markdown"
       ELSE IF IsCode(trimmed) THEN "markdown"
       ELSE IF IsMarkdown(trimmed) THEN "markdown"
       ELSE "markdown"

\* variant: the fallback of the earlier version, return 'text'
detectFormat_TextDefault(text) ==
    LET trimmed == TrimText(text)
    IN IF IsJson(trimmed) THEN "json"
       ELSE IF IsXml(trimmed) THEN "xml"
       ELSE IF IsHtml(trimmed) THEN "html"
       ELSE IF FencedBlock(trimmed) THEN "markdown"
       ELSE IF IsCode(trimmed) THEN "markdown"
       ELSE IF IsMarkdown(trimmed) THEN "markdown"
       ELSE "text"

\* variant: with a tool switched on, everything is markdown
detectFormat_ReadsTools(text) ==
    LET trimmed == TrimText(text)
    IN IF activeTools # <<>> THEN "markdown"
       ELSE IF IsJson(trimmed) THEN "json"
       ELSE IF IsXml(trimmed) THEN "xml"
       ELSE IF IsHtml(trimmed) THEN "html"
       ELSE "markdown"

\* detectFormat(text)
detectFormat(text) ==
    LET trimmed == TrimText(text)
    IN IF IsJson(trimmed) THEN "json"
       ELSE IF IsXml(trimmed) THEN "xml"
       ELSE IF IsHtml(trimmed) THEN "html"
       ELSE IF FencedBlock(trimmed) THEN "markdown"
       ELSE IF IsCode(trimmed) THEN "markdown"
       ELSE IF IsMarkdown(trimmed) THEN "markdown"
       ELSE "markdown"

\* ------------------------------------------------- the texts that are rendered
MaxPieces == 4
MaxRenders == 2

\* a JSON member whose key holds Markdown markers and a closing tag: "*`#[- </>":1
\* the branch of the renderer that draws a text classified as fmt: each of
\* the four tags has its branch, the JSON one parses the trimmed text again
\* and falls through when that throws, and what reaches the end is drawn as
\* raw plain text
RenderBranch(text, fmt) ==
    IF fmt = "json" /\ JsonParses(TrimText(text)) THEN "json-renderer"
    ELSE IF fmt = "xml" THEN "xml-renderer"
    ELSE IF fmt = "html" THEN "html-renderer"
    ELSE IF fmt = "markdown" THEN "markdown-renderer"
    ELSE "text-renderer"

JsonMember == <<Quote, "*", Backtick, "#", "[", "-", " ", "<", "/", ">", Quote, ":", "1">>

Pieces == {<<"{">>, <<"}">>, JsonMember, <<",">>, <<"<">>, <<">">>, <<"<", "/">>,
           Fence, HtmlPrefix, DoctypePrefix, <<" ">>, <<"\n">>, <<"a">>}

RECURSIVE Flatten(_)
Flatten(ps) == IF ps = <<>> THEN <<>> ELSE Head(ps) \o Flatten(Tail(ps))

\* every text of at most MaxPieces pieces
Texts == {Flatten(ps) : ps \in UNION {[1..n -> Pieces] : n \in 0..MaxPieces}}

\* <SmartContentRenderer content={...} /> is given a text
RenderInit ==
    /\ messages = <<>> /\ inputValue = <<>> /\ isLoading = FALSE
    /\ sessions = <<>> /\ currentSessionId = Null /\ agentStatus = "null"
    /\ activeTools = <<>>
    /\ tasks = {} /\ bSessions = <<>> /\ bCurrent = Null /\ bNext = 1
    /\ evq = <<>> /\ eg = NoEvents /\ ops = 0 /\ last = NoLast
    /\ MenuIdle
    /\ content \in Texts
    /\ format = "none" /\ renders = 0

\* const format = detectFormat(content), evaluated each time the component is
\* rendered
Render ==
    /\ renders < MaxRenders
    /\ renders' = renders + 1
    /\ format' = detectFormat(content)
    /\ UNCHANGED <<appVars, activeTools, ops, last, menuVars, content>>

RenderNext == Render

RenderSpec == RenderInit /\ [][RenderNext]_vars

\* The classifier inside the App: the transcript ends with an assistant reply,
\* which a SmartContentRenderer draws, and the user toggles tools between two
\* renders.
\* the App at rest after a send answered by text in a fresh session
AfterReply(text) ==
    /\ messages = <<UserMsg(<<"h">>), AssistantMsg(text)>>
    /\ bSessions = <<[id |-> 1, title |-> NewChatTitle, messages |-> messages]>>
    /\ sessions = bSessions
    /\ currentSessionId = 1 /\ bCurrent = 1 /\ bNext = 2
    /\ inputValue = <<>> /\ isLoading = FALSE /\ agentStatus = "null"
    /\ activeTools = <<>>
    /\ tasks = {} /\ evq = <<>> /\ eg = NoEvents

ClassifyInit ==
    /\ content \in Texts
    /\ AfterReply(content)
    /\ format = "none" /\ renders = 0
    /\ ops = 0 /\ last = NoLast
    /\ MenuIdle

ClassifyNext ==
    \/ Render
    \/ \E toolName \in Tools : HandleToggleTool(toolName)

ClassifySpec == ClassifyInit /\ [][ClassifyNext]_vars

\* ------------------------------------- App and the tools menu side by side
\* the two components share no call and no handler: a behaviour is one of App
\* (the menu not mounted) or one of the mounted menu (App idle)
MenuIsMounted == listeners[1].st # "none"

CallsInit == Init \/ MenuInit

CallsNext ==
    \/ ~MenuIsMounted /\ Next
    \/ MenuIsMounted /\ MenuNext

CallsSpec == CallsInit /\ [][CallsNext]_vars

\* =================================================================== claims
Issued(calls, name) == {i \in 1..Len(calls) : calls[i][1] = "issue" /\ calls[i][2] = name}

SendSettled == last.act \in {"step", "done"} /\ last.task.kind = "send" /\ last.task.pc = "run"
Finished(kind) == last.act = "done" /\ last.task.kind = kind

\* C1: run_agent_task is never issued while the current session id is null; a send
\* started with no current session ends with a transcript of exactly one user
\* message followed by one assistant message.
C1_NoSendOnNullSession ==
    /\ \A t \in tasks : t.kind = "send" => t.sid # Null
    /\ (Finished("send") /\ last.task.cur = Null) =>
          /\ last.task.sid # Null
          /\ Len(messages) = 2
          /\ messages[1].role = "user" /\ messages[2].role = "assistant"

\* C2: a send of input t from transcript M appends user(trim t) before the call
\* settles; when the call has settled the transcript is M ++ [user(trim t), reply],
\* the reply being assistant(r) on success and an assistant message containing the
\* error text on failure.
C2_SendTranscript ==
    /\ (last.act = "start" /\ last.task.kind = "send") =>
          messages = Append(last.task.m0, UserMsg(last.task.txt))
    /\ SendSettled =>
          LET M == last.task.m0
          IN /\ Len(messages) = Len(M) + 2
             /\ SubSeq(messages, 1, Len(M)) = M
             /\ messages[Len(M) + 1] = UserMsg(last.task.txt)
             /\ messages[Len(M) + 2].role = "assistant"
             /\ IF last.task.st = "ok"
                THEN messages[Len(M) + 2].content = last.task.resp
                ELSE Contains(messages[Len(M) + 2].content, last.task.resp)

C4_StartupEmpty ==
    (Finished("newchat") /\ last.task.fromInit /\ last.task.got = <<>>
        /\ last.task.st = "ok" /\ ops = 0) =>
       /\ Cardinality(Issued(last.task.calls, "finalize_and_new_chat")) = 1
       /\ Issued(last.task.calls, "select_session") = {}
       /\ currentSessionId # Null
       /\ currentSessionId = last.task.sess.id
       /\ messages = <<>>
       /\ sessions = <<last.task.sess>>

C4_Witness ==
    /\ Finished("newchat") /\ last.task.fromInit /\ last.task.got = <<>>
    /\ last.task.st = "ok" /\ ops = 0
    /\ sessions = <<last.task.sess>> /\ currentSessionId = last.task.sess.id

StartupCallsNonEmpty(task) ==
    /\ task.calls[1] = <<"issue", "get_all_sessions", Null>>
    /\ task.calls[2] = <<"ok", "get_all_sessions", Null>>
    /\ \A i \in 2..Len(task.calls) : task.calls[i][1] = "issue" => i > 2
    /\ Issued(task.calls, "finalize_and_new_chat") = {}
    /\ Cardinality(Issued(task.calls, "select_session")) = 1
    /\ \A i \in Issued(task.calls, "select_session") : task.calls[i][3] = task.got[1].id

\* C5: startup on a non-empty backend list: get_all_sessions is issued and resolved
\* before any other call of startup, then exactly one select_session is issued, for
\* the id of the first list element, and no finalize_and_new_chat; when startup
\* completes after a successful select_session, the current session id and the
\* transcript are those of the session it returned.
C5_StartupNonEmpty ==
    /\ \A t \in tasks : (t.fromInit /\ Len(t.got) > 0) => StartupCallsNonEmpty(t)
    /\ (last.act = "done" /\ last.task.fromInit /\ Len(last.task.got) > 0) =>
          /\ StartupCallsNonEmpty(last.task)
          /\ last.task.pc = "load" =>
                /\ currentSessionId = last.task.sess.id
                /\ messages = last.task.sess.messages

C5_Witness ==
    /\ last.act = "done" /\ last.task.fromInit /\ Len(last.task.got) > 1
    /\ last.task.pc = "load"
    /\ currentSessionId = last.task.got[1].id
    /\ messages # <<>>

\* C6: handleSelectSession changes neither the transcript nor the current session id
\* when it is started, when select_session has succeeded and the list reload is
\* still pending, or when select_session has failed; both switch to the returned
\* session only in the step that follows the reload.
C6_SelectSwitchesLast ==
    /\ (last.task.kind = "select" /\ last.act \in {"start", "step"}) =>
          (currentSessionId = last.prevCur /\ messages = last.prevMsgs)
    /\ (Finished("select") /\ last.task.pc = "sel") =>
          (currentSessionId = last.prevCur /\ messages = last.prevMsgs)
    /\ (Finished("select") /\ last.task.pc = "load") =>
          (currentSessionId = last.task.sess.id /\ messages = last.task.sess.messages)

C6_Witness ==
    /\ last.act = "step" /\ last.task.kind = "select" /\ ~last.task.fromInit
    /\ last.task.st = "ok"
    /\ currentSessionId # Null
    /\ last.task.sess.id # currentSessionId
    /\ last.task.sess.messages # messages

\* C7: New chat invoked while the current session is empty and untitled adds no
\* entry to the local session list and leaves the current session id unchanged.
C7_NewChatIdempotent ==
    (Finished("newchat") /\ last.task.curKind = "empty") =>
       /\ Len(sessions) = Len(last.prevSessions)
       /\ currentSessionId = last.prevCur

\* C8 (as stated): New chat on a non-empty or titled current session, once
\* finalize_and_new_chat has succeeded: get_all_sessions has been issued by the
\* handler, the returned session is current, the transcript is its messages and the
\* local list equals the backend's list.
C8_NewChatReloads ==
    (Finished("newchat") /\ last.task.curKind = "used" /\ last.task.st = "ok") =>
       /\ Issued(last.task.calls, "get_all_sessions") # {}
       /\ currentSessionId = last.task.sess.id
       /\ messages = last.task.sess.messages
       /\ sessions = bSessions

\* C8 (amended): New chat on a non-empty or titled current session, once
\* finalize_and_new_chat has succeeded: the handler issues no get_all_sessions; the
\* returned session is current, the transcript is its messages, and the local list
\* is the previous local list with the returned session put in front.
C8_NewChatPrepends ==
    (Finished("newchat") /\ last.task.curKind = "used" /\ last.task.st = "ok") =>
       /\ Issued(last.task.calls, "get_all_sessions") = {}
       /\ currentSessionId = last.task.sess.id
       /\ messages = last.task.sess.messages
       /\ sessions = <<last.task.sess>> \o last.prevSessions

C8_Witness ==
    /\ Finished("newchat") /\ last.task.curKind = "used" /\ last.task.st = "ok"
    /\ last.prevSessions # <<>>
    /\ last.prevMsgs # <<>>
    /\ Head(sessions).id = currentSessionId
    /\ messages = <<>>

RenameOfCurrentAcked ==
    Finished("rename") /\ last.task.pc = "load" /\ last.task.id = last.task.cur

C10_DeleteClearsCurrent ==
    (Finished("delete") /\ last.task.pc = "load") =>
       /\ currentSessionId # last.task.id
       /\ IF last.prevCur = last.task.id
          THEN currentSessionId = Null /\ messages = <<>>
          ELSE currentSessionId = last.prevCur /\ messages = last.prevMsgs

SessionCalls == {"get_all_sessions", "select_session", "finalize_and_new_chat",
                 "rename_session", "delete_session"}

\* C11: the handler step that receives the failure of get_all_sessions,
\* select_session, finalize_and_new_chat, rename_session or delete_session leaves
\* the session list, the current session id, the transcript and the active tools
\* as they were; nothing is applied in part.
C11_FailureChangesNothing ==
    (last.act \in {"step", "done"} /\ last.task.st = "err"
        /\ CallOf(last.task) \in SessionCalls) =>
       /\ sessions = last.prevSessions
       /\ currentSessionId = last.prevCur
       /\ messages = last.prevMsgs
       /\ activeTools = last.prevTools

StartupFailed ==
    /\ last.act = "done" /\ last.task.fromInit
    /\ last.task.st = "err" /\ last.task.pc \in {"get", "sel", "fin"}

C13_ToggleFlips ==
    [][last'.act = "toggle" =>
          LET t == last'.tool
          IN /\ (t \in SetOf(activeTools')) <=> (t \notin SetOf(activeTools))
             /\ \A u \in AllTools \ {t} :
                   (u \in SetOf(activeTools')) <=> (u \in SetOf(activeTools))
             /\ tasks' = tasks /\ mcalls' = mcalls
             /\ SetOf(ToggleTool(activeTools', t)) = SetOf(activeTools)]_vars

C13_Witness ==
    /\ last.act = "toggle" /\ last.tool = "A"
    /\ "A" \in SetOf(last.prevTools) /\ "B" \in SetOf(last.prevTools)
    /\ activeTools = <<"B">>

ServerEntry(name) == servers[CHOOSE i \in 1..Len(servers) : servers[i].name = name]

\* the tools the menu has been told of, for the servers it last saw running
ReportedTools ==
    UNION {SetOf(discoveredTools[servers[i].name].tools) :
              i \in {j \in 1..Len(servers) : servers[j].status = "running"}}

MenuQuiet == mcalls = EmptyBag /\ mevq = <<>>

\* C15: when the startup query and a re-query triggered by a status change have
\* overlapped and both have been applied, the active tool set (before any toggle)
\* is the whole result of the query that resolved last.
C15_LastResolvedQueryWins ==
    (mg.overlap /\ MenuQuiet /\ servers # <<>> /\ ops = 0) =>
       SetOf(activeTools) = ReportedTools

\* C16: once the startup query has completed successfully, and before any user
\* toggle or status change, the active tool set is the set of tools the backend
\* reported as discoverable.
C16_StartupSeedsActiveTools ==
    (mg.changes = 0 /\ MenuQuiet /\ servers # <<>> /\ ops = 0) =>
       SetOf(activeTools) = ReportedTools

\* C17: every tool the menu offers with a checkbox belongs to a server whose last
\* known status is running, also when the tool list was open while the server stopped.
C17_OfferedToolsAreRunning ==
    Offered # {} => ServerEntry(selectedServerName).status = "running"

\* C18: no step of the tools menu other than a click on a tool's checkbox changes
\* the active tool set: the status-change handler, the re-query of the servers and
\* the fetches of their tools leave it as it is, so the enabled tools of a server
\* that has stopped stay in the set.
C18_StatusChangeKeepsActiveTools ==
    [][last'.act # "toggle" => activeTools' = activeTools]_vars

C18_Witness ==
    /\ mlast.act = "servers"
    /\ \E i \in 1..Len(servers) :
          /\ servers[i].status = "stopped"
          /\ SetOf(McpTools[servers[i].name]) \cap SetOf(activeTools) # {}

\* C19: the handler of a subscription whose cleanup has run is not invoked for an
\* event emitted after the cleanup, also when the cleanup ran before listen()
\* returned the cancellation handle; so no such event triggers a server re-query.
C19_NoDeliveryAfterTeardown ==
    mlast.act = "event" => ~listeners[mlast.gen].torn

\* C20: a get_all_sessions that was in flight when the effect that issued it was
\* torn down changes neither the session list, the current session id nor the
\* transcript when it resolves or rejects.
C20_NoWriteAfterTeardown ==
    (last.act \in {"step", "done"} /\ last.task.torn /\ last.task.pc = "get") =>
       /\ sessions = last.prevSessions
       /\ currentSessionId = last.prevCur
       /\ messages = last.prevMsgs

\* handleSendMessage is running: from the click to the end of its finally block
SendInFlight == \E t \in tasks : t.kind = "send"

\* C21: while a send is in flight and every emitted agent_event has been
\* delivered, the agent status is the status carried by the most recently emitted
\* event, or null when no event has arrived since the send started.
C21_EventsInEmissionOrder ==
    (SendInFlight /\ evq = <<>>) =>
       agentStatus = IF eg.arrived THEN eg.emitted ELSE "null"

C21_Witness ==
    /\ SendInFlight /\ evq = <<>> /\ eg.arrived
    /\ last.act = "event" /\ last.prevStatus = "thinking"
    /\ eg.emitted = "null" /\ agentStatus = "null"

\* C22: in every state in which no send is running (so no run_agent_task call is
\* outstanding) the agent status is null, also when an agent_event is delivered
\* after the call has settled and the handler has finished.
C22_StatusNullWithoutSend ==
    ~SendInFlight => agentStatus = "null"

\* C23: when handleSendMessage has finished, run_agent_task having resolved or
\* rejected, it has issued get_all_sessions after the call settled, and the list
\* that call returned is the local session list.
C23_SendRefreshesList ==
    Finished("send") =>
       /\ \E i \in Issued(last.task.calls, "get_all_sessions") :
             \E j \in 1..(i - 1) : /\ last.task.calls[j][2] = "run_agent_task"
                                    /\ last.task.calls[j][1] \in {"ok", "err"}
       /\ (last.task.pc = "load" /\ last.task.st = "ok") => sessions = last.task.resp

\* C24: the step that issues run_agent_task passes the trimmed text of the input
\* box as message and the active tool set of that moment as activeTools, every
\* earlier toggle included; a toggle made while the call is outstanding changes
\* the active tool set but not the call or its arguments.
C24_SendSnapshotsTools ==
    [][/\ (last'.act = "start" /\ last'.task.kind = "send") =>
             /\ last'.task \in tasks'
             /\ CallOf(last'.task) = "run_agent_task" /\ last'.task.st = "sent"
             /\ last'.task.txt = Trim(last'.task.typed)
             /\ last'.task.tools = activeTools
             /\ activeTools' = activeTools
        /\ (last'.act = "toggle" => tasks' = tasks)]_vars

C24_Witness ==
    /\ last.act = "toggle"
    /\ \E t \in tasks : /\ t.kind = "send" /\ t.pc = "run" /\ t.st = "sent"
                         /\ t.typed = <<" ", "h", " ">> /\ t.txt = <<"h">>
                         /\ t.tools = last.prevTools
                         /\ t.tools # activeTools

IsPrefix(a, b) == Len(a) <= Len(b) /\ SubSeq(b, 1, Len(a)) = a

\* C25: every step that leaves the current session id as it is, a session being
\* current, leaves the transcript as it is or extends it: the transcript before
\* the step is a prefix of the transcript after it.
C25_TranscriptAppendOnly ==
    [][(currentSessionId' = currentSessionId /\ currentSessionId # Null) =>
          IsPrefix(messages, messages')]_vars

\* C26: a step in which a handler receives the failure of a backend call issues
\* no backend call: the failed call is dropped and the calls in flight are
\* otherwise as before, for the calls of App and for the calls of the tools menu;
\* calls are issued only by a user action, by startup, by a push event, or by a
\* handler that continues after a call that succeeded.
C26_NoAutomaticRetry ==
    [][/\ \A t \in tasks : (t.st = "err" /\ t \notin tasks') =>
                               (tasks' = tasks \ {t} /\ mcalls' = mcalls)
        /\ \A c \in BagToSet(mcalls) :
              (c.st = "err" /\ CopiesIn(c, mcalls') < CopiesIn(c, mcalls)) =>
                 (mcalls' = mcalls (-) One(c) /\ tasks' = tasks)]_vars

C26_Witness ==
    /\ Finished("delete") /\ last.task.pc = "del" /\ last.task.st = "err"
    /\ last.task.alerts = 1
    /\ tasks = {} /\ mcalls = EmptyBag

Rendered == format # "none"
\* the text as detectFormat looks at it
Trimmed == TrimText(content)
TagLike == StartsWith(Trimmed, <<"<">>) /\ Includes(Trimmed, <<"<", "/">>)
HasHtmlPrefix == StartsWith(Trimmed, HtmlPrefix) \/ StartsWith(Trimmed, DoctypePrefix)

\* C27: a text whose trimmed form starts with "{", ends with "}" and parses as
\* JSON is classified json, whatever Markdown markers or tag-like substrings it
\* contains.
C27_JsonObjectIsJson ==
    (Rendered /\ StartsWith(Trimmed, <<"{">>) /\ EndsWith(Trimmed, <<"}">>)
        /\ JsonParses(Trimmed)) => format = "json"

C27_Witness ==
    /\ format = "json" /\ content # Trimmed
    /\ Includes(content, <<"*">>) /\ Includes(content, <<Backtick>>)
    /\ Includes(content, <<"#">>) /\ Includes(content, <<"[">>)
    /\ Includes(content, <<"-", " ">>) /\ Includes(content, <<"<", "/">>)

C30_HtmlPrefixBeforeXml ==
    (Rendered /\ format # "json") =>
       IF HasHtmlPrefix THEN format = "html"
       ELSE (TagLike /\ Includes(Trimmed, <<">">>)) => format = "xml"

\* C31: the empty text, and every text made of whitespace only, is classified
\* markdown.
C31_BlankIsMarkdown ==
    (Rendered /\ \A i \in 1..Len(content) : content[i] \in Whitespace) =>
       format = "markdown"

C31_Witness ==
    /\ Rendered /\ content = <<" ", "\n", " ">>
    /\ format = "markdown"

\* a text that shows none of the signals the classifier looks for
NoSignal ==
    /\ ~IsJson(Trimmed) /\ ~IsXml(Trimmed) /\ ~IsHtml(Trimmed)
    /\ ~FencedBlock(Trimmed) /\ ~IsCode(Trimmed) /\ ~IsMarkdown(Trimmed)

ServersApplied(c) ==
    /\ c.kind = "servers" /\ c.st = "ok"
    /\ CopiesIn(c, mcalls') < CopiesIn(c, mcalls)

\* C34: every mcp_server_status_changed notification handed to the handler
\* issues get_mcp_servers; when that call resolves the server list becomes
\* its response and get_discovered_tools is issued for every server the
\* response reports as running; nothing else writes the server list, so
\* after overlapping re-queries it is the response that resolved last.
C34_NotificationRequeries ==
    [][/\ Len(mevq') < Len(mevq) =>
             \E g \in 1..2 : mcalls' = mcalls (+) One(MenuCall("servers", "", g))
       /\ \A c \in BagToSet(mcalls) : ServersApplied(c) =>
             /\ servers' = c.resp
             /\ \A i \in 1..Len(c.resp) : c.resp[i].status = "running" =>
                    CopiesIn(MenuCall("tools", c.resp[i].name, c.gen), mcalls') >
                       CopiesIn(MenuCall("tools", c.resp[i].name, c.gen), mcalls)
       /\ servers' # servers => \E c \in BagToSet(mcalls) : ServersApplied(c)]_vars

\* the startup query and the re-query of a notification overlapped and the
\* startup query resolved last: the list is its response, which the change
\* has outdated
C34_Witness ==
    /\ mg.overlap /\ mg.changes = 1 /\ mevq = <<>> /\ ~ServersInFlight
    /\ mlast.act = "servers"
    /\ servers # <<>> /\ servers # ServerList

\* the run_agent_task calls that have not settled at the client
RunsOutstanding == {t \in tasks : t.kind = "send" /\ t.pc = "run"}

\* C35: at most one run_agent_task call is outstanding; isLoading is true as
\* long as a send has not finished (its call and, on success, the refresh of
\* the session list); a send attempted while isLoading is true issues no call
\* and appends nothing.
C35_OneSendAtATime ==
    [][/\ Cardinality(RunsOutstanding') <= 1
       /\ (\E t \in tasks' : t.kind = "send") => isLoading'
       /\ (last'.act = "noop" /\ isLoading) =>
             /\ tasks' = tasks /\ messages' = messages
             /\ UNCHANGED <<isLoading, bSessions, bCurrent>>]_vars

\* Send was pressed while the run_agent_task of an earlier send is in flight
C35_Witness ==
    /\ last.act = "noop" /\ isLoading
    /\ Cardinality(RunsOutstanding) = 1
    /\ \E t \in RunsOutstanding : t.st = "sent"
    /\ messages # <<>> /\ messages[Len(messages)].role = "user"

\* C36: a send with empty or whitespace-only input is a no-op: pressing Send
\* starts a send only for an input that is not blank, and otherwise leaves the
\* transcript, the calls in flight, the backend, the loading flag, the agent
\* status and the session list as they are.
C36_BlankSendIsNoop ==
    [][/\ (last'.act = "start" /\ last'.task.kind = "send") =>
             Trim(last'.task.typed) # <<>>
       /\ last'.act = "noop" =>
             /\ isLoading \/ Trim(inputValue') = <<>>
             /\ UNCHANGED <<messages, tasks, backendVars, isLoading, agentStatus,
                            sessions, currentSessionId>>]_vars

\* Send was pressed on a whitespace-only input after a send that left a
\* transcript and a status behind
C36_Witness ==
    /\ last.act = "noop" /\ ~isLoading
    /\ inputValue = <<" ">>
    /\ messages # <<>> /\ sessions # <<>>

\* Send was pressed on the empty input
C36_EmptyWitness ==
    /\ last.act = "noop" /\ ~isLoading
    /\ inputValue = <<>>
    /\ sessions # <<>>

\* C37: the reply (or error message) of a send is appended only to the
\* transcript of the session that was current when the user message was sent:
\* when run_agent_task has settled and its message has been appended, the
\* session shown is still that session, whatever select, new chat or delete
\* ran meanwhile.
C37_ReplyInOwnSession ==
    (SendSettled /\ last.task.sid # Null) => currentSessionId = last.task.sid

\* no handler of the App is waiting for a backend call
Quiescent == tasks = {}

\* C38: in every quiescent state with a current session, the client's
\* current session is the session the backend treats as current.
C38_CurrentAgreesWithBackend ==
    (Quiescent /\ currentSessionId # Null) => currentSessionId = bCurrent

\* C39: no two entries of the local session list have the same id.
C39_SessionIdsUnique ==
    \A i, j \in 1..Len(sessions) : i # j => sessions[i].id # sessions[j].id

\* C40: in every quiescent state a non-null current session id is the id of
\* an entry of the local session list.
C40_CurrentIsListed ==
    (Quiescent /\ currentSessionId # Null) =>
       \E i \in 1..Len(sessions) : sessions[i].id = currentSessionId

====
